---------------------------- MODULE Spec2Model ----------------------------
(***************************************************************************)
(* A model of the distance kernel of msdfont-rs (src/src/math.rs,          *)
(* src/src/shape.rs) and of its font metrics (src/src/font.rs).            *)
(*                                                                         *)
(* The program computes in IEEE-754 binary32 (Rust f32).  Its branches     *)
(* compare rounded values (rr > qqq, diff.abs() against 0.01, is_zero),    *)
(* so the model keeps the width: a number is a record                      *)
(*     [k, s, m, e]   k in {"fin","zero","inf","nan"}, s in {1,-1},        *)
(* standing for s * m * 2^e with a 24-bit significand m, and +, -, *, /    *)
(* and sqrt are rounded to nearest, ties to even, as the hardware does.    *)
(***************************************************************************)
EXTENDS Integers, Sequences, FiniteSets, TLC

(***************************************************************************)
(* f32: representation                                                     *)
(***************************************************************************)
Pow2(n) == 2 ^ n

\* Number of significand bits of an f32 (f32::MANTISSA_DIGITS).
MantBits == 24

\* Exponent of the least significant bit of the smallest subnormal.
EMin == 0 - 149

\* Exponent of the least significant bit of the largest finite f32.
EMax == 104

NaN == [k |-> "nan", s |-> 1, m |-> 0, e |-> 0]

Zero(sg) == [k |-> "zero", s |-> sg, m |-> 0, e |-> 0]

Inf(sg) == [k |-> "inf", s |-> sg, m |-> 0, e |-> 0]

Fin(sg, mm, ee) == [k |-> "fin", s |-> sg, m |-> mm, e |-> ee]

\* The number of bits of n < 2^31, by halving the range.
BitLen4(n) == IF n < 4 THEN (IF n < 2 THEN n ELSE 2) ELSE IF n < 8 THEN 3 ELSE 4

BitLen8(n) == IF n < 16 THEN BitLen4(n) ELSE 4 + BitLen4(n \div 16)

BitLen(n) ==
    IF n < 65536 THEN (IF n < 256 THEN BitLen8(n) ELSE 8 + BitLen8(n \div 256))
    ELSE IF n < 16777216 THEN 16 + BitLen8(n \div 65536)
    ELSE 24 + BitLen8(n \div 16777216)

Max(i, j) == IF i >= j THEN i ELSE j

\* TRUE, once x is evaluated.  TLC evaluates a definition when its value is
\* first needed, inside the evaluation that needs it; CASE Ready(x) -> e makes
\* the statements of the source run one after the other instead, x being the
\* tuple of their values in program order.
Ready(x) == x = x

\* The f32 of sign sg, significand mm <= 2^24 and exponent ee >= EMin: a
\* significand of 2^24 is renormalised, an exponent beyond EMax overflows
\* to infinity.
Pack(sg, mm, ee) ==
    IF mm = 0 THEN Zero(sg)
    ELSE IF ee + (IF mm = Pow2(MantBits) THEN 1 ELSE 0) > EMax THEN Inf(sg)
    ELSE IF mm = Pow2(MantBits) THEN Fin(sg, Pow2(MantBits - 1), ee + 1)
    ELSE Fin(sg, mm, ee)

\* 1 if the quotient q with remainder r of a division by 2 * half rounds up
\* (to nearest, ties to even).
RoundUp(q, r, half) == IF r > half \/ (r = half /\ q % 2 = 1) THEN 1 ELSE 0

\* mm cut by its lowest bits, the quotient q being mm \div (2 * half).
RoundCut(sg, mm, q, half, ee) == Pack(sg, q + RoundUp(q, mm - q * half * 2, half), ee)

\* mm * 2^ee with sh bits dropped (sh > 0) or -sh zero bits appended.
RoundShift(sg, mm, ee, sh) ==
    IF sh <= 0 THEN Pack(sg, mm * Pow2(0 - sh), ee + sh)
    ELSE IF sh > 31 THEN Zero(sg)
    ELSE RoundCut(sg, mm, (mm \div Pow2(sh - 1)) \div 2, Pow2(sh - 1), ee + sh)

\* s * mm * 2^ee rounded to the nearest f32, ties to even; mm > 0 may carry
\* a sticky bit in its lowest position when at least two bits get dropped.
\* The result keeps 24 bits, fewer below the smallest normal exponent.
Round(sg, mm, ee) == (CASE Ready(mm) -> RoundShift(sg, mm, ee, Max(BitLen(mm) - MantBits, EMin - ee)))

\* A finite nonzero f32 with its significand shifted up to 24 bits.
NormM(x) == x.m * Pow2(MantBits - BitLen(x.m))

NormE(x) == x.e - (MantBits - BitLen(x.m))

\* The f32 of a small integer (an integer literal such as 3.0).
I(n) == IF n = 0 THEN Zero(1) ELSE IF n > 0 THEN Round(1, n, 0) ELSE Round(-1, 0 - n, 0)

(***************************************************************************)
(* f32: comparison and sign                                                *)
(***************************************************************************)
IsNaN(x) == x.k = "nan"

FNeg(x) == IF IsNaN(x) THEN NaN ELSE [x EXCEPT !.s = 0 - x.s]

FAbs(x) == IF IsNaN(x) THEN NaN ELSE [x EXCEPT !.s = 1]

\* Magnitude order of two finite nonzero values.
MagLt(x, y) ==
    NormE(x) < NormE(y) \/ (NormE(x) = NormE(y) /\ NormM(x) < NormM(y))

\* x < y for non-NaN x, y.
OrdLt(x, y) ==
    CASE x.k = "zero" /\ y.k = "zero" -> FALSE
      [] x.k = "zero" -> y.s = 1
      [] y.k = "zero" -> x.s = -1
      [] x.s # y.s -> x.s = -1
      [] x.k = "inf" -> y.k # "inf" /\ x.s = -1
      [] y.k = "inf" -> y.s = 1
      [] OTHER -> IF x.s = 1 THEN MagLt(x, y) ELSE MagLt(y, x)

FLt(x, y) == ~IsNaN(x) /\ ~IsNaN(y) /\ OrdLt(x, y)

FGt(x, y) == FLt(y, x)

FEq(x, y) == ~IsNaN(x) /\ ~IsNaN(y) /\ ~OrdLt(x, y) /\ ~OrdLt(y, x)

FLe(x, y) == FLt(x, y) \/ FEq(x, y)

FGe(x, y) == FLe(y, x)

\* f32::signum: 1.0 for +0.0 and positives, -1.0 for -0.0 and negatives, NaN for NaN.
signum(x) == IF IsNaN(x) THEN NaN ELSE I(x.s)

\* f32::clamp(self, min, max).
clamp(x, lo, hi) == IF FLt(x, lo) THEN lo ELSE IF FGt(x, hi) THEN hi ELSE x

(***************************************************************************)
(* f32: arithmetic                                                         *)
(***************************************************************************)
\* hi * 2^24 + lo (lo < 2^24) cut to 30 bits, the dropped 18 bits folded
\* into a sticky bit.
MulCut(hi, lo) == (hi * 64 + (lo \div 262144)) * 2 + (IF lo % 262144 = 0 THEN 0 ELSE 1)

\* hh * 2^24 + mid * 2^12 + ll, cut likewise.
MulJoin(hh, mid, ll) ==
    MulCut(hh + ((mid + (ll \div 4096)) \div 4096),
           ((mid + (ll \div 4096)) % 4096) * 4096 + (ll % 4096))

MulParts(ah, al, bh, bl) == MulJoin(ah * bh, ah * bl + al * bh, al * bl)

\* The 48-bit product of two 24-bit significands as 30 bits and a sticky
\* bit, from 12-bit halves.
MulSig(ma, mb) == MulParts(ma \div 4096, ma % 4096, mb \div 4096, mb % 4096)

FMul(x, y) ==
    CASE IsNaN(x) \/ IsNaN(y) -> NaN
      [] x.k = "inf" -> IF y.k = "zero" THEN NaN ELSE Inf(x.s * y.s)
      [] y.k = "inf" -> IF x.k = "zero" THEN NaN ELSE Inf(x.s * y.s)
      [] x.k = "zero" \/ y.k = "zero" -> Zero(x.s * y.s)
      [] OTHER -> Round(x.s * y.s, MulSig(NormM(x), NormM(y)), NormE(x) + NormE(y) + 17)

\* b0 \div p with the remainder folded into a sticky lowest bit.
ShiftSticky(b0, p) ==
    IF (b0 \div p) * p = b0 THEN b0 \div p ELSE ((b0 \div p) \div 2) * 2 + 1

\* b0 shifted down by d bits, sticky.
AlignSticky(b0, d) == IF d > 27 THEN 1 ELSE ShiftSticky(b0, Pow2(d))

\* sa * a + sb * b, both in units of 2^ee; an exact zero sum is +0.
AddAligned(sa, a, sb, b, ee) ==
    IF sa # sb /\ a = b THEN Zero(1)
    ELSE Round(IF sa = sb \/ a > b THEN sa ELSE sb,
               IF sa = sb THEN a + b ELSE IF a > b THEN a - b ELSE b - a,
               ee)

\* x + y for finite nonzero x, y with NormE(x) >= NormE(y): three guard
\* bits, the smaller operand shifted down onto the larger.
AddOrdered(x, y) ==
    AddAligned(x.s, NormM(x) * 8, y.s, AlignSticky(NormM(y) * 8, NormE(x) - NormE(y)),
               NormE(x) - 3)

FAdd(x, y) ==
    CASE IsNaN(x) \/ IsNaN(y) -> NaN
      [] x.k = "inf" -> IF y.k = "inf" /\ x.s # y.s THEN NaN ELSE x
      [] y.k = "inf" -> y
      [] x.k = "zero" /\ y.k = "zero" -> IF x.s = y.s THEN x ELSE Zero(1)
      [] x.k = "zero" -> y
      [] y.k = "zero" -> x
      [] OTHER -> AddOrdered(IF NormE(x) >= NormE(y) THEN x ELSE y,
                             IF NormE(x) >= NormE(y) THEN y ELSE x)

FSub(x, y) == FAdd(x, FNeg(y))

\* n <= 7 further quotient bits of qr[2] / mb, appended to qr[1]; qr is
\* <<quotient, remainder>>, the remainder below mb < 2^24.
DivChunk(qr, mb, n) ==
    <<qr[1] * Pow2(n) + ((qr[2] * Pow2(n)) \div mb), (qr[2] * Pow2(n)) % mb>>

\* 26 further quotient bits.
DivBits(q, rem, mb) ==
    DivChunk(DivChunk(DivChunk(DivChunk(<<q, rem>>, mb, 7), mb, 7), mb, 7), mb, 5)

\* The quotient bits qr[1] with the remainder qr[2] as sticky bit.
WithSticky(qr) == qr[1] * 2 + (IF qr[2] = 0 THEN 0 ELSE 1)

FDiv(x, y) ==
    CASE IsNaN(x) \/ IsNaN(y) -> NaN
      [] x.k = "inf" -> IF y.k = "inf" THEN NaN ELSE Inf(x.s * y.s)
      [] y.k = "inf" -> Zero(x.s * y.s)
      [] y.k = "zero" -> IF x.k = "zero" THEN NaN ELSE Inf(x.s * y.s)
      [] x.k = "zero" -> Zero(x.s * y.s)
      [] OTHER -> Round(x.s * y.s,
                        WithSticky(DivBits(NormM(x) \div NormM(y), NormM(x) % NormM(y),
                                           NormM(y))),
                        NormE(x) - NormE(y) - 27)

\* Square root digit by digit.  The pair of bits that step j brings down:
\* the 13 pairs of v < 2^26 from the top, then pairs of zeros.
SqrtPair(v, j) == IF j <= 13 THEN (v \div Pow2(2 * (13 - j))) % 4 ELSE 0

\* The next bit of the root, d being the remainder with the pair appended.
SqrtPut(root, d) ==
    IF d >= root * 4 + 1 THEN <<root * 2 + 1, d - (root * 4 + 1)>> ELSE <<root * 2, d>>

SqrtStep(st, v, j) == SqrtPut(st[1], st[2] * 4 + SqrtPair(v, j))

\* Steps lo..hi from the state st = <<root, remainder>>; the range is
\* halved, and the first half is finished before the second starts.
RECURSIVE SqrtBits(_, _, _, _)
SqrtBits(st, v, lo, hi) ==
    CASE Ready(st) ->
    IF lo = hi THEN SqrtStep(st, v, lo)
    ELSE SqrtBits(SqrtBits(st, v, lo, (lo + hi) \div 2), v, (lo + hi) \div 2 + 1, hi)

\* The square root of v * 2^ev for an even ev.
SqrtEven(v, ev) == Round(1, WithSticky(SqrtBits(<<0, 0>>, v, 1, 27)), (ev \div 2) - 15)

FSqrt(x) ==
    CASE IsNaN(x) -> NaN
      [] x.k = "zero" -> x
      [] x.s = -1 -> NaN
      [] x.k = "inf" -> x
      [] OTHER -> SqrtEven(IF NormE(x) % 2 # 0 THEN NormM(x) * 2 ELSE NormM(x),
                           IF NormE(x) % 2 # 0 THEN NormE(x) - 1 ELSE NormE(x))

(***************************************************************************)
(* Fixed-point arithmetic on naturals held as little-endian sequences of   *)
(* 14-bit limbs.  It carries the cube root, cosine and arc cosine to 56    *)
(* fractional bits before they are rounded to f32, so that cbrt() is       *)
(* rounded correctly and cos(), acos() are within 2^-50 of the true value  *)
(* before rounding (the platform's libm promises about one ulp).           *)
(***************************************************************************)
LimbBits == 14

Base == Pow2(LimbBits)

FracLimbs == 4

FracBits == LimbBits * FracLimbs

Limb(a, i) == IF i >= 1 /\ i <= Len(a) THEN a[i] ELSE 0

RECURSIVE Carry(_, _, _)
Carry(cols, i, c) ==
    IF i > Len(cols)
    THEN IF c = 0 THEN <<>> ELSE <<c % Base>> \o Carry(cols, i, c \div Base)
    ELSE <<(cols[i] + c) % Base>> \o Carry(cols, i + 1, (cols[i] + c) \div Base)

BNat(n) == Carry(<<>>, 1, n)

RECURSIVE ColSum(_, _, _, _)
ColSum(a, b, k, i) ==
    IF i > Len(a) \/ i > k THEN 0
    ELSE a[i] * Limb(b, k + 1 - i) + ColSum(a, b, k, i + 1)

BMul(a, b) ==
    IF Len(a) = 0 \/ Len(b) = 0 THEN <<>>
    ELSE Carry([k \in 1..(Len(a) + Len(b) - 1) |-> ColSum(a, b, k, 1)], 1, 0)

BMulSmall(a, n) == Carry([i \in 1..Len(a) |-> a[i] * n], 1, 0)

BAdd(a, b) == Carry([i \in 1..Max(Len(a), Len(b)) |-> Limb(a, i) + Limb(b, i)], 1, 0)

\* The limbs of a - b from limb i on, br the borrow into limb i.
RECURSIVE Borrow(_, _, _, _)
Borrow(a, b, i, br) ==
    IF i > Max(Len(a), Len(b)) THEN <<>>
    ELSE IF Limb(a, i) - Limb(b, i) - br < 0
    THEN <<Limb(a, i) - Limb(b, i) - br + Base>> \o Borrow(a, b, i + 1, 1)
    ELSE <<Limb(a, i) - Limb(b, i) - br>> \o Borrow(a, b, i + 1, 0)

\* a - b for a >= b.
BSub(a, b) == Borrow(a, b, 1, 0)

RECURSIVE BCmpFrom(_, _, _)
BCmpFrom(a, b, i) ==
    IF i = 0 THEN 0
    ELSE IF Limb(a, i) > Limb(b, i) THEN 1
    ELSE IF Limb(a, i) < Limb(b, i) THEN -1
    ELSE BCmpFrom(a, b, i - 1)

BCmp(a, b) == BCmpFrom(a, b, Max(Len(a), Len(b)))

BIsZero(a) == \A i \in 1..Len(a) : a[i] = 0

RECURSIVE DivSmallFrom(_, _, _, _)
DivSmallFrom(a, d, i, rem) ==
    IF i = 0 THEN <<>>
    ELSE DivSmallFrom(a, d, i - 1, (rem * Base + a[i]) % d) \o <<(rem * Base + a[i]) \div d>>

BDivSmall(a, d) == DivSmallFrom(a, d, Len(a), 0)

BShl(a, n) == [i \in 1..(n \div LimbBits) |-> 0] \o BMulSmall(a, Pow2(n % LimbBits))

BShrLimbs(a, n) == IF Len(a) <= n THEN <<>> ELSE SubSeq(a, n + 1, Len(a))

RECURSIVE BTop(_, _)
BTop(a, i) == IF i = 0 THEN 0 ELSE IF a[i] # 0 THEN i ELSE BTop(a, i - 1)

FxMul(a, b) == BShrLimbs(BMul(a, b), FracLimbs)

FxOne == BShl(<<1>>, FracBits)

\* pi / 2 and pi to 56 fractional bits.
FxHalfPi == <<4484, 4363, 15188, 9351, 1>>

FxPi == <<8968, 8726, 13992, 2319, 3>>

\* |x| in fixed point, for a finite or zero f32 x (bits below 2^-56 dropped).
ToFix(x) ==
    IF x.k = "zero" THEN <<>>
    ELSE IF x.e + FracBits >= 0 THEN BShl(BNat(x.m), x.e + FracBits)
    ELSE IF 0 - (x.e + FracBits) > 30 THEN <<>>
    ELSE BNat(x.m \div Pow2(0 - (x.e + FracBits)))

\* The top two limbs t2 of a (its highest nonzero limb is limb n) are
\* widened by k bits of limb n - 2 to 29 bits; the rest is sticky.
FixTop(sg, a, n, t2, k) ==
    Round(sg,
          (t2 * Pow2(k) + (Limb(a, n - 2) \div Pow2(LimbBits - k))) * 2
              + (IF Limb(a, n - 2) % Pow2(LimbBits - k) # 0 \/ (\E i \in 1..(n - 3) : a[i] # 0)
                 THEN 1 ELSE 0),
          LimbBits * (n - 3) + (LimbBits - k) - FracBits - 1)

FixLimbs(sg, a, n, t2) == FixTop(sg, a, n, t2, IF 29 - BitLen(t2) > LimbBits THEN LimbBits ELSE 29 - BitLen(t2))

FixFrom(sg, a, n) ==
    IF n = 0 THEN Zero(sg) ELSE FixLimbs(sg, a, n, Limb(a, n) * Base + Limb(a, n - 1))

\* The f32 nearest to sg * a * 2^-56.
FromFix(sg, a) == (CASE Ready(a) -> FixFrom(sg, a, BTop(a, Len(a))))

Cube(c) == BMul(BMul(c, c), c)

\* f32::cbrt, correctly rounded.  Bit n of the cube root of v is set if the
\* cube stays within v.
CbrtStep(v, root, n) ==
    IF BCmp(Cube(BNat(root + Pow2(n))), v) <= 0 THEN root + Pow2(n) ELSE root

\* The bits hi down to lo of the cube root; the range is halved, and the
\* upper half is finished before the lower starts.
RECURSIVE CbrtBits(_, _, _, _)
CbrtBits(v, root, hi, lo) ==
    CASE Ready(root) ->
    IF lo = hi THEN CbrtStep(v, root, lo)
    ELSE CbrtBits(v, CbrtBits(v, root, hi, (lo + hi) \div 2 + 1), (lo + hi) \div 2, lo)

\* The root rt of v, with a sticky bit unless rt^3 = v.
CbrtSticky(v, rt) == rt * 2 + (IF BCmp(Cube(BNat(rt)), v) = 0 THEN 0 ELSE 1)

\* The cube root of v * 2^-54 * 2^ev for ev a multiple of 3.
CbrtOf(sg, v, ev) == Round(sg, CbrtSticky(v, CbrtBits(v, 0, 26, 0)), (ev \div 3) - 19)

cbrt(x) ==
    IF x.k # "fin" THEN x
    ELSE CbrtOf(x.s, BShl(BNat(NormM(x) * Pow2(NormE(x) % 3)), 54), NormE(x) - (NormE(x) % 3))

\* The Taylor series of the cosine.  The state is <<term, pos, neg>>: term
\* is y^(2n) / (2n)!, and the sums of the added and of the subtracted terms
\* are kept apart.  Step n adds the term n + 1.
CosAdd(t, n, pos, neg) ==
    IF n % 2 = 0 THEN <<t, pos, BAdd(neg, t)>> ELSE <<t, BAdd(pos, t), neg>>

CosStep(y2, st, n) ==
    CosAdd(BDivSmall(FxMul(st[1], y2), (2 * n + 1) * (2 * n + 2)), n, st[2], st[3])

\* Steps lo..hi; the range is halved, and the first half is finished before
\* the second starts.
RECURSIVE CosSeries(_, _, _, _)
CosSeries(y2, st, lo, hi) ==
    CASE Ready(st) ->
    IF lo = hi THEN CosStep(y2, st, lo)
    ELSE CosSeries(y2, CosSeries(y2, st, lo, (lo + hi) \div 2), (lo + hi) \div 2 + 1, hi)

\* For y < 2 the terms from y^32 / 32! on vanish in 56 fractional bits.
CosTerms == 16

\* A signed fixed-point number <<sign, magnitude>>: a - b.
FxDiff(a, b) == IF BCmp(a, b) >= 0 THEN <<1, BSub(a, b)>> ELSE <<-1, BSub(b, a)>>

\* 2 c^2 - 1 for a signed fixed-point c.
DoubleAngle(c) == (CASE Ready(c) -> FxDiff(BMulSmall(FxMul(c[2], c[2]), 2), FxOne))

FxCosSum(st) == (CASE Ready(st) -> FxDiff(st[2], st[3]))

FxCos(y) == DoubleAngle(DoubleAngle(FxCosSum(CosSeries(FxMul(y, y), <<FxOne, FxOne, <<>>>>, 0, CosTerms - 1))))

FromSigned(c) == (CASE Ready(c) -> FromFix(c[1], c[2]))

\* f32::cos for |x| < 8: the series at x / 4, then the double angle twice.
cos(x) ==
    IF x.k = "nan" \/ x.k = "inf" THEN NaN
    ELSE FromSigned(FxCos(BDivSmall(ToFix(x), 4)))

\* The series of the arc sine.  The state is <<p, acc>>: p is c_n z^(2n+1),
\* acc the sum so far.  Step n adds the term n + 1.
AsinAdd(p2, n, acc) == <<p2, BAdd(acc, BDivSmall(p2, 2 * n + 3))>>

AsinStep(z2, st, n) ==
    AsinAdd(BDivSmall(BMulSmall(FxMul(st[1], z2), 2 * n + 1), 2 * n + 2), n, st[2])

RECURSIVE AsinSeries(_, _, _, _)
AsinSeries(z2, st, lo, hi) ==
    CASE Ready(st) ->
    IF lo = hi THEN AsinStep(z2, st, lo)
    ELSE AsinSeries(z2, AsinSeries(z2, st, lo, (lo + hi) \div 2), (lo + hi) \div 2 + 1, hi)

\* For z <= 1/2 the terms from z^65 on vanish in 56 fractional bits.
AsinTerms == 32

FxAsin(z) == (CASE Ready(z) -> AsinSeries(FxMul(z, z), <<z, z>>, 0, AsinTerms - 1)[2])

\* The square root of a fixed-point u < 1: bit n of the root is set if the
\* square stays within u.
FxSqrtStep(u, root, c) ==
    IF BCmp(BMul(c, c), BShl(u, FracBits)) <= 0 THEN c ELSE root

RECURSIVE FxSqrtBits(_, _, _, _)
FxSqrtBits(u, root, hi, lo) ==
    CASE Ready(root) ->
    IF lo = hi THEN FxSqrtStep(u, root, BAdd(root, BShl(<<1>>, lo)))
    ELSE FxSqrtBits(u, FxSqrtBits(u, root, hi, (lo + hi) \div 2 + 1), (lo + hi) \div 2, lo)

\* acos of sg * a for the fixed-point 0 <= a <= 1: pi/2 -+ asin a for
\* a <= 1/2, else by the half angle 2 asin(sqrt((1 - a) / 2)).
FxAcosHalf(sg, t) == IF sg = 1 THEN FromFix(1, t) ELSE FromFix(1, BSub(FxPi, t))

FxAcos(sg, a) ==
    IF BCmp(BMulSmall(a, 2), FxOne) <= 0
    THEN FromFix(1, IF sg = 1 THEN BSub(FxHalfPi, FxAsin(a)) ELSE BAdd(FxHalfPi, FxAsin(a)))
    ELSE FxAcosHalf(sg, BMulSmall(FxAsin(FxSqrtBits(BDivSmall(BSub(FxOne, a), 2), <<>>,
                                                   FracBits - 1, 0)), 2))

\* f32::acos.
acos(x) ==
    IF x.k = "nan" \/ x.k = "inf" \/ FGt(FAbs(x), I(1)) THEN NaN
    ELSE FxAcos(x.s, ToFix(x))

\* f32::powi(3).
powi3(x) == FMul(FMul(x, x), x)

(***************************************************************************)
(* Literals and constants of the source                                    *)
(***************************************************************************)
\* A decimal literal n/d of the source, e.g. 0.01 is Lit(1, 100): the f32
\* nearest to the quotient.
Lit(n, d) == FDiv(I(n), I(d))

\* f32::MAX = (2^24 - 1) * 2^104.
F32MAX == Fin(1, Pow2(MantBits) - 1, EMax)

\* std::f32::consts::PI = 13176795 * 2^-22.
PI == Fin(1, 13176795, 0 - 22)

\* Option<f32>::None, held in the same record shape as the numbers.
None == [k |-> "none", s |-> 1, m |-> 0, e |-> 0]

IsSome(o) == o.k # "none"

\* f32::partial_cmp: Option<Ordering>.
partial_cmp_f32(x, y) ==
    IF IsNaN(x) \/ IsNaN(y) THEN "None"
    ELSE IF OrdLt(x, y) THEN "Less"
    ELSE IF OrdLt(y, x) THEN "Greater"
    ELSE "Equal"

(***************************************************************************)
(* Vector2<f32> (crate::vector).  The file is not among the sources; the   *)
(* operations follow the specification: componentwise arithmetic, dot      *)
(* product, scalar 2D cross product, magnitude and normalization.  The     *)
(* orientation of the cross product, a.x * b.y - a.y * b.x, is the one the *)
(* unit test line_quad_intersection_test of math.rs fixes: it expects the  *)
(* crossing of the line (1,1)->(10,10) with the quadratic (2.5,2), (3,8),  *)
(* (10,12), whose parameter is the smaller root of a t^2 + b t + c with a, *)
(* b, c cross products, in the first slot, which is where quadratic_roots  *)
(* puts it only if a is positive.                                          *)
(***************************************************************************)
Vec(vx, vy) == [x |-> vx, y |-> vy]

VAdd(a, b) == Vec(FAdd(a.x, b.x), FAdd(a.y, b.y))

VSub(a, b) == Vec(FSub(a.x, b.x), FSub(a.y, b.y))

VNeg(a) == Vec(FNeg(a.x), FNeg(a.y))

\* f32 * Vector2 and Vector2 * f32.
VScale(t, a) == Vec(FMul(t, a.x), FMul(t, a.y))

dot(a, b) == FAdd(FMul(a.x, b.x), FMul(a.y, b.y))

cross(a, b) == FSub(FMul(a.x, b.y), FMul(a.y, b.x))

magnitude2(a) == dot(a, a)

magnitude(a) == FSqrt(magnitude2(a))

\* Vector2 / f32.
VDiv(a, len) == (CASE Ready(len) -> Vec(FDiv(a.x, len), FDiv(a.y, len)))

normalize(a) == VDiv(a, magnitude(a))

is_zero(a) == FEq(a.x, I(0)) /\ FEq(a.y, I(0))

(***************************************************************************)
(* math.rs: Distance and its ordering                                      *)
(***************************************************************************)
Distance(ext, real, orth, sg) ==
    [extended_dist |-> ext, real_dist |-> real, orthogonality |-> orth, sign |-> sg]

Distance_MAX == Distance(F32MAX, F32MAX, I(0), NaN)

\* partial_cmp with the tie on the tolerance decided by real_dist instead of
\* by orthogonality (the arm Some(Ordering::Equal) merged with Greater).
partial_cmp_tie_by_real(self, other) ==
    LET diff == FSub(self.real_dist, other.real_dist)
        c    == partial_cmp_f32(FAbs(diff), Lit(1, 100))
    IN  CASE c = "Less"    -> partial_cmp_f32(other.orthogonality, self.orthogonality)
          [] c = "Greater" -> partial_cmp_f32(self.real_dist, other.real_dist)
          [] c = "Equal"   -> partial_cmp_f32(self.real_dist, other.real_dist)
          [] OTHER         -> "None"

\* <Distance as PartialOrd>::partial_cmp.
partial_cmp(self, other) ==
    LET diff == FSub(self.real_dist, other.real_dist)
        c    == partial_cmp_f32(FAbs(diff), Lit(1, 100))
    IN  CASE c = "Less"    -> partial_cmp_f32(other.orthogonality, self.orthogonality)
          [] c = "Greater" -> partial_cmp_f32(self.real_dist, other.real_dist)
          [] c = "Equal"   -> partial_cmp_f32(other.orthogonality, self.orthogonality)
          [] OTHER         -> "None"

\* The operator < that PartialOrd derives from partial_cmp.
lt(a, b) == partial_cmp(a, b) = "Less"

(***************************************************************************)
(* math.rs: distance to a line                                             *)
(***************************************************************************)
Line(p0, p1) == [type |-> "Line", from |-> p0, to |-> p1]

Quad(p0, p1, p2) == [type |-> "Quadratic", from |-> p0, ctrl |-> p1, to |-> p2]

\* The statements of line_signed_distance, each as an operator that takes the
\* values computed so far and hands the next ones on; the names are those of
\* the source's let bindings.
\*     let ortho = if p_bezier.is_zero() { 0.0 }
\*                 else { p1_p0.normalize().cross(p_bezier.normalize()) };
line_ortho(p1_p0, p_bezier) ==
    IF is_zero(p_bezier) THEN I(0) ELSE cross(normalize(p1_p0), normalize(p_bezier))

\*     Distance { extended_dist, real_dist, orthogonality: ortho.abs(), sign: ortho.signum() }
line_result(extended_dist, real_dist, ortho) ==
    (CASE Ready(<<extended_dist, real_dist, ortho>>) -> Distance(extended_dist, real_dist, FAbs(ortho), signum(ortho)))

\*     real_dist = bezier_p.magnitude(); extended_dist = extend_bezier_p.magnitude();
\*     p_bezier = -bezier_p
line_dists(p1_p0, extend_bezier_p, bezier_p) ==
    (CASE Ready(<<extend_bezier_p, bezier_p>>) -> line_result(magnitude(extend_bezier_p), magnitude(bezier_p),
                       line_ortho(p1_p0, VNeg(bezier_p))))

\*     extended_bezier = p0 + extended_pos * p1_p0; extend_bezier_p = extended_bezier - p;
\*     bezier = p0 + real_pos * p1_p0; bezier_p = bezier - p
line_closest(p0, p, p1_p0, extended_pos, real_pos) ==
    (CASE Ready(<<extended_pos, real_pos>>) -> line_dists(p1_p0, VSub(VAdd(p0, VScale(extended_pos, p1_p0)), p),
                      VSub(VAdd(p0, VScale(real_pos, p1_p0)), p)))

\*     extended_pos = p_p0.dot(p1_p0) / p1_p0.dot(p1_p0);
\*     real_pos = extended_pos.clamp(0.0, 1.0)
line_project(p0, p, p1_p0, extended_pos) ==
    line_closest(p0, p, p1_p0, extended_pos, clamp(extended_pos, I(0), I(1)))

\*     p_p0 = p - p0; p1_p0 = p1 - p0
line_vectors(p0, p, p_p0, p1_p0) ==
    (CASE Ready(<<p_p0, p1_p0>>) -> line_project(p0, p, p1_p0, FDiv(dot(p_p0, p1_p0), dot(p1_p0, p1_p0))))

line_signed_distance(line, point) ==
    line_vectors(line.from, point, VSub(point, line.from), VSub(line.to, line.from))

(***************************************************************************)
(* math.rs: roots of quadratic and cubic polynomials                       *)
(***************************************************************************)
\* The statements of the root finders, each as an operator that takes the
\* values computed so far and hands the next ones on; the names are those of
\* the source's let bindings.
\*     x1 = -(b + discriminant_sqrt) * a2; x2 = (discriminant_sqrt - b) * a2
quadratic_two_roots(b, discriminant_sqrt, a2) ==
    (CASE Ready(<<discriminant_sqrt, a2>>) -> <<FMul(FNeg(FAdd(b, discriminant_sqrt)), a2), FMul(FSub(discriminant_sqrt, b), a2)>>)

quadratic_by_discriminant(a, b, c, discriminant) ==
    IF FEq(a, I(0))
    THEN IF FEq(b, I(0)) THEN <<None, None>>
         ELSE <<FDiv(FNeg(c), b), None>>
    ELSE IF FLt(discriminant, I(0)) THEN <<None, None>>
    ELSE IF FGt(discriminant, I(0))
    THEN quadratic_two_roots(b, FSqrt(discriminant), FDiv(I(1), FMul(I(2), a)))
    ELSE <<FDiv(FMul(FNeg(Lit(1, 2)), b), a), None>>

quadratic_roots(a, b, c) ==
    quadratic_by_discriminant(a, b, c, FSub(FMul(b, b), FMul(FMul(I(4), a), c)))

\* q of cubic_roots: (b * b - 3.0 * c) / 9.0 of the normalised coefficients.
cubic_q(b, c) == FDiv(FSub(FMul(b, b), FMul(I(3), c)), I(9))

\* r of cubic_roots: (2.0 * b * b * b + 27.0 * d - 9.0 * c * b) / 54.0.
cubic_r(b, c, d) ==
    FDiv(FSub(FAdd(FMul(FMul(FMul(I(2), b), b), b), FMul(I(27), d)),
              FMul(FMul(I(9), c), b)),
         I(54))

\* A variant of the branch test that sends rr = qqq, the zero discriminant,
\* to the one-root branch.
one_root_test_or_equal(rr, qqq) == FGe(rr, qqq)

\* The test of cubic_roots that chooses the branch: rr > qqq.
one_root_test(rr, qqq) == FGt(rr, qqq)

\*     x1 = (s + q / s) - b
cubic_one_root(q, b2, s) == (CASE Ready(s) -> <<FSub(FAdd(s, FDiv(q, s)), b2), None, None>>)

\*     x1 = m * (theta * third).cos() - b; x2, x3 likewise with theta +- two_pi
cubic_three_roots(m, theta, two_pi, third, b2) ==
    (CASE Ready(<<m, theta, two_pi>>) -> <<FSub(FMul(m, cos(FMul(theta, third))), b2),
             FSub(FMul(m, cos(FMul(FAdd(theta, two_pi), third))), b2),
             FSub(FMul(m, cos(FMul(FSub(theta, two_pi), third))), b2)>>)

\*     two_pi = 2.0 * PI; theta = (r / q_sqrt.powi(3)).acos(); m = -2.0 * q_sqrt
cubic_trigonometric(r, third, b2, q_sqrt) ==
    (CASE Ready(q_sqrt) -> cubic_three_roots(FMul(FNeg(I(2)), q_sqrt), acos(FDiv(r, powi3(q_sqrt))),
                             FMul(I(2), PI), third, b2))

\*     if rr > qqq { s = -r.signum() * (r.abs() + (rr - qqq).sqrt()).cbrt() ... }
\*     else { q_sqrt = q.sqrt() ... }
cubic_branch(q, r, qqq, rr, third, b2) ==
    (CASE Ready(<<qqq, rr, b2>>) -> IF one_root_test(rr, qqq)
           THEN cubic_one_root(q, b2,
                    FMul(FNeg(signum(r)), cbrt(FAdd(FAbs(r), FSqrt(FSub(rr, qqq))))))
           ELSE cubic_trigonometric(r, third, b2, FSqrt(q)))

\*     qqq = q * q * q; rr = r * r; third = 1.0 / 3.0; b *= third
cubic_depressed(b1, q, r, third) ==
    (CASE Ready(<<q, r, third>>) -> cubic_branch(q, r, FMul(FMul(q, q), q), FMul(r, r), third, FMul(b1, third)))

\*     b = b / a; c = c / a; d = d / a; q = ...; r = ...
cubic_normalized(b1, c1, d1) ==
    (CASE Ready(<<b1, c1, d1>>) -> cubic_depressed(b1, cubic_q(b1, c1), cubic_r(b1, c1, d1), FDiv(I(1), I(3))))

\*     [roots[0], roots[1], None]
cubic_of_quadratic(roots) == <<roots[1], roots[2], None>>

cubic_roots(a, b, c, d) ==
    IF FEq(a, I(0)) THEN cubic_of_quadratic(quadratic_roots(b, c, d))
    ELSE cubic_normalized(FDiv(b, a), FDiv(c, a), FDiv(d, a))

\* test_find_cubic_roots, the reference of the unit tests: its q, r and the
\* discriminant q^3 + r^2 that chooses its branch.
test_q(b, c) == FDiv(FSub(FMul(I(3), c), FMul(b, b)), I(9))

test_r(b, c, d) ==
    FDiv(FSub(FSub(FMul(FMul(I(9), b), c), FMul(I(27), d)),
              FMul(FMul(FMul(I(2), b), b), b)),
         I(54))

\*     s = (r + discriminant.sqrt()).cbrt(); t = (r - discriminant.sqrt()).cbrt();
\*     x1 = (s + t) - third * b
test_one_root(b1, third, s, t) ==
    (CASE Ready(<<s, t>>) -> <<FSub(FAdd(s, t), FMul(third, b1))>>)

\*     x1 = m * (theta / 3.0).cos() - n; x2, x3 with theta + two_pi, theta + 2.0 * two_pi
test_three_roots(m, n, theta, two_pi) ==
    (CASE Ready(<<m, n, theta, two_pi>>) -> <<FSub(FMul(m, cos(FDiv(theta, I(3)))), n),
             FSub(FMul(m, cos(FDiv(FAdd(theta, two_pi), I(3)))), n),
             FSub(FMul(m, cos(FDiv(FAdd(theta, FMul(I(2), two_pi)), I(3)))), n)>>)

\*     if discriminant > 0.0 { ... } two_pi = 2.0 * PI;
\*     theta = (r / (-qqq).sqrt()).acos(); m = 2.0 * (-q).sqrt(); n = b * third
test_roots(b1, q, r, qqq, discriminant, third) ==
    IF FGt(discriminant, I(0))
    THEN test_one_root(b1, third, cbrt(FAdd(r, FSqrt(discriminant))),
                       cbrt(FSub(r, FSqrt(discriminant))))
    ELSE test_three_roots(FMul(I(2), FSqrt(FNeg(q))), FMul(b1, third),
                          acos(FDiv(r, FSqrt(FNeg(qqq)))), FMul(I(2), PI))

\*     return (roots, discriminant, q, r)
test_result(b1, q, r, qqq, discriminant) ==
    (CASE Ready(discriminant) -> [roots |-> test_roots(b1, q, r, qqq, discriminant, FDiv(I(1), I(3))),
            discriminant |-> discriminant, q |-> q, r |-> r])

\*     qqq = q * q * q; discriminant = qqq + r * r
test_depressed(b1, q, r, qqq) ==
    (CASE Ready(<<q, r, qqq>>) -> test_result(b1, q, r, qqq, FAdd(qqq, FMul(r, r))))

test_normalized(b1, c1, d1, q) ==
    (CASE Ready(<<b1, c1, d1, q>>) -> test_depressed(b1, q, test_r(b1, c1, d1), FMul(FMul(q, q), q)))

test_coefficients(b1, c1, d1) == test_normalized(b1, c1, d1, test_q(b1, c1))

test_find_cubic_roots(a, b, c, d) == test_coefficients(FDiv(b, a), FDiv(c, a), FDiv(d, a))

(***************************************************************************)
(* math.rs: distance to a quadratic Bezier curve                           *)
(***************************************************************************)
\* The quadratic at parameter t: t * t * v2 + 2.0 * t * v1 + p0.
quad_point(t, v2, v1, p0) ==
    VAdd(VAdd(VScale(FMul(t, t), v2), VScale(FMul(I(2), t), v1)), p0)

\* The body of the loop over roots.iter().flatten() for the root r: best is
\* the record of the four variables the loop updates.
\*     if dist2 < smallest_dist2 { extended_pos = *r; real_pos = t; ... }
closer_root(best, r, t, bezier, dist2) ==
    (CASE Ready(<<bezier, dist2>>) -> IF FLt(dist2, best.smallest_dist2)
           THEN [extended_pos |-> r, real_pos |-> t,
                 closest_bezier |-> bezier, smallest_dist2 |-> dist2]
           ELSE best)

\*     bezier = t * t * v2 + 2.0 * t * v1 + p0; dist2 = (bezier - p).magnitude2()
root_point(best, r, t, bezier, p) == closer_root(best, r, t, bezier, magnitude2(VSub(bezier, p)))

\*     t = r.clamp(0.0, 1.0)
root_clamped(best, r, t, v2, v1, p0, p) == root_point(best, r, t, quad_point(t, v2, v1, p0), p)

\* The loop from the root of index i on.
RECURSIVE closest_root(_, _, _, _, _, _, _)
closest_root(roots, i, best, v2, v1, p0, p) ==
    IF i > Len(roots) THEN best
    ELSE IF ~IsSome(roots[i]) THEN closest_root(roots, i + 1, best, v2, v1, p0, p)
    ELSE (CASE Ready(best) -> closest_root(roots, i + 1,
                             root_clamped(best, roots[i], clamp(roots[i], I(0), I(1)),
                                          v2, v1, p0, p),
                             v2, v1, p0, p))

\* The variables of the loop before its first round.
no_root == [extended_pos |-> I(0), real_pos |-> I(0),
            closest_bezier |-> Vec(F32MAX, F32MAX), smallest_dist2 |-> F32MAX]

\*     ortho = if p_bezier.is_zero() || dir.is_zero() { 0.0 }
\*             else { dir.normalize().cross(p_bezier.normalize()) }
quad_ortho(dir, p_bezier) ==
    (CASE Ready(<<dir, p_bezier>>) -> IF is_zero(p_bezier) \/ is_zero(dir) THEN I(0)
           ELSE cross(normalize(dir), normalize(p_bezier)))

quad_result(extended_dist, real_dist, ortho) ==
    (CASE Ready(<<extended_dist, real_dist, ortho>>) -> Distance(extended_dist, real_dist, FAbs(ortho), signum(ortho)))

\*     extended_bezier = extended_pos * extended_pos * v2 + 2.0 * extended_pos * v1 + p0;
\*     extended_dist = (extended_bezier - p).magnitude(); real_dist = smallest_dist2.sqrt();
\*     dir = 2.0 * v2 * real_pos + 2.0 * v1; p_bezier = p - closest_bezier
quad_closest(sel, v2, v1, p0, p) ==
    (CASE Ready(sel) -> quad_result(magnitude(VSub(quad_point(sel.extended_pos, v2, v1, p0), p)),
                       FSqrt(sel.smallest_dist2),
                       quad_ortho(VAdd(VScale(sel.real_pos, VScale(I(2), v2)), VScale(I(2), v1)),
                                  VSub(p, sel.closest_bezier))))

\*     roots = cubic_roots(a, b, c, d), then the loop
quad_roots(roots, v2, v1, p0, p) ==
    (CASE Ready(roots) -> quad_closest(closest_root(roots, 1, no_root, v2, v1, p0, p), v2, v1, p0, p))

\*     a = v2.dot(v2); b = 3.0 * v1.dot(v2); c = 2.0 * v1.dot(v1) - v2.dot(v); d = -v1.dot(v)
quad_vectors(p0, p, v, v1, v2) ==
    (CASE Ready(<<v, v1, v2>>) -> quad_roots(cubic_roots(dot(v2, v2), FMul(I(3), dot(v1, v2)),
                                  FSub(FMul(I(2), dot(v1, v1)), dot(v2, v)), FNeg(dot(v1, v))),
                      v2, v1, p0, p))

\*     v = p - p0; v1 = p1 - p0; v2 = p2 - 2.0 * p1 + p0
quad_signed_distance(quad, point) ==
    quad_vectors(quad.from, point, VSub(point, quad.from), VSub(quad.ctrl, quad.from),
                 VAdd(VSub(quad.to, VScale(I(2), quad.ctrl)), quad.from))

(***************************************************************************)
(* shape.rs: segments and contours                                         *)
(***************************************************************************)
Curve(p0, c1, c2, p1) == [type |-> "Cubic", from |-> p0, ctrl1 |-> c1, ctrl2 |-> c2, to |-> p1]

\* The outcome of a call: a returned value, or a panic (unimplemented!(),
\* Option::expect on None) that unwinds instead of returning.
Returned(val) == [panic |-> FALSE, value |-> val]

Panicked == [panic |-> TRUE, value |-> Distance_MAX]

\* Segment::distance.
Segment_distance(segment, point) ==
    CASE segment.type = "Line" -> Returned(line_signed_distance(segment, point))
      [] segment.type = "Quadratic" -> Returned(quad_signed_distance(segment, point))
      [] OTHER -> Panicked

\* The closure of the reduce in Contour::distance.
reduce_closure(accum, item) == IF lt(accum, item) THEN accum ELSE item

\* Iterator::reduce over the mapped distances from segment i on.  map is
\* lazy: segment i is measured when reduce asks for it, so a Cubic segment
\* panics the call when the iteration reaches it.
RECURSIVE reduce_from(_, _, _, _)
reduce_item(segs, p, i, accum, out) ==
    IF out.panic THEN Panicked
    ELSE reduce_from(segs, p, i + 1, reduce_closure(accum, out.value))

reduce_from(segs, p, i, accum) ==
    CASE Ready(accum) ->
    IF i > Len(segs) THEN Returned(accum)
    ELSE reduce_item(segs, p, i, accum, Segment_distance(segs[i], p))

\* The first item is the first accumulator.
reduce_first(segs, p, out) == IF out.panic THEN Panicked ELSE reduce_from(segs, p, 2, out.value)

\* Contour::distance: reduce returns None for no segments, and expect panics.
Contour_distance(segs, p) ==
    IF Len(segs) = 0 THEN Panicked ELSE reduce_first(segs, p, Segment_distance(segs[1], p))

(***************************************************************************)
(* State.  The kernel is a library of pure functions over a contour's      *)
(* segments; a behaviour of the model is one call: the caller's values,    *)
(* then the call, then its outcome.                                        *)
(***************************************************************************)
VARIABLES
    segments,   \* Contour::segments, the Vec<Segment> the caller built; the
                \* two segments of an intersection query
    point,      \* the probe point of a distance query
    operands,   \* the arguments of a call that takes no segment: the
                \* coefficients of a polynomial; a font, a rectangle and a scale
    outcome,    \* what the call returned, or that it panicked
    pc          \* "idle" until the call, then where the call ended

vars == <<segments, point, operands, outcome, pc>>

V(a, b) == Vec(I(a), I(b))

NoOutcome == [panic |-> FALSE, value |-> "none yet"]

(***************************************************************************)
(* SpecOrder: one comparison round of three Distance values, as the reduce *)
(* of Contour::distance compares them pairwise.                            *)
(***************************************************************************)
\* real_dist ranges over multiples of 0.005 up to MaxRealStep of them, so
\* that differences fall below, on and above the tolerance 0.01.
MaxRealStep == 4

\* orthogonality ranges over k / 2.
MaxOrthStep == 2

RealDists == {Lit(5 * i, 1000) : i \in 0..MaxRealStep}

Orthogonalities == {Lit(k, 2) : k \in 0..MaxOrthStep}

Distances == {Distance(r, r, o, I(1)) : r \in RealDists, o \in Orthogonalities}

InitOrder ==
    /\ operands \in Distances \X Distances \X Distances
    /\ segments = <<>>
    /\ point = V(0, 0)
    /\ outcome = NoOutcome
    /\ pc = "idle"

\* partial_cmp on each ordered pair of the three operands.
Compare ==
    /\ pc = "idle"
    /\ Len(operands) = 3
    /\ outcome' = Returned([i \in 1..3 |-> [j \in 1..3 |-> partial_cmp(operands[i], operands[j])]])
    /\ pc' = "returned"
    /\ UNCHANGED <<segments, point, operands>>

NextOrder == Compare

SpecOrder == InitOrder /\ [][NextOrder]_vars

\* |a.real_dist - b.real_dist| as partial_cmp computes it.
RealGap(a, b) == FAbs(FSub(a.real_dist, b.real_dist))

Tolerance == Lit(1, 100)

Less(i, j) == outcome.value[i][j] = "Less"

\* C1 (as amended): a orders strictly before b exactly when the real
\* distances differ by at most 0.01 and a's orthogonality is larger, or they
\* differ by more than 0.01 and a's real distance is smaller.
C1_OrderingRule ==
    pc = "returned" =>
        \A i, j \in 1..3 :
            LET a == operands[i]
                b == operands[j]
            IN  Less(i, j) <=>
                    \/ FLe(RealGap(a, b), Tolerance) /\ FGt(a.orthogonality, b.orthogonality)
                    \/ FGt(RealGap(a, b), Tolerance) /\ FLt(a.real_dist, b.real_dist)

\* C1, witness: a pair whose real distances differ by exactly the tolerance
\* has been compared and the larger orthogonality, on the larger real
\* distance, has won.
C1_Witness ==
    /\ pc = "returned"
    /\ \E i, j \in 1..3 :
        /\ FEq(RealGap(operands[i], operands[j]), Tolerance)
        /\ FGt(operands[i].real_dist, operands[j].real_dist)
        /\ Less(i, j)

\* C1 as stated: orthogonality decides only below 0.01, the real distance
\* decides whenever the difference is not below 0.01.
C1_AsStated ==
    pc = "returned" =>
        \A i, j \in 1..3 :
            LET a == operands[i]
                b == operands[j]
            IN  Less(i, j) <=>
                    \/ FLt(RealGap(a, b), Tolerance) /\ FGt(a.orthogonality, b.orthogonality)
                    \/ ~FLt(RealGap(a, b), Tolerance) /\ FLt(a.real_dist, b.real_dist)

\* C3: the ordering is a strict weak order on NaN-free values: < is
\* transitive, and "neither is less" is transitive too (an equivalence).
C3_TotalOrder ==
    pc = "returned" =>
        /\ (Less(1, 2) /\ Less(2, 3)) => Less(1, 3)
        /\ (~Less(1, 2) /\ ~Less(2, 1) /\ ~Less(2, 3) /\ ~Less(3, 2))
               => (~Less(1, 3) /\ ~Less(3, 1))

(***************************************************************************)
(* SpecSegment: Segment::distance of one segment for one probe point.      *)
(***************************************************************************)
\* Coordinates of end points, control points and probes range over
\* 0..MaxCoord.
MaxCoord == 2

GridPoints == {V(x, y) : x, y \in 0..MaxCoord}

GridLines == {Line(p, q) : p, q \in GridPoints}

\* Quadratics start at the origin: a translation of the grid adds nothing.
GridQuads == {Quad(V(0, 0), c, q) : c, q \in GridPoints}

GridCurves == {Curve(V(0, 0), V(0, 1), q, V(1, 0)) : q \in GridPoints}

\* Queries beyond the grid: the line of the specification's scenario, and a
\* quadratic whose closest-point cubic has three roots, the first below 0.
ExampleQueries ==
    { <<Line(V(0, 0), V(10, 0)), V(5, 3)>>,
      <<Line(V(0, 0), V(10, 0)), V(5, 0)>>,
      <<Quad(V(0, 0), V(1, 1), V(3, 4)), V(0, 0)>>,
      <<Quad(V(0, 0), V(1, 1), V(3, 4)), V(1, 2)>> }

SegmentQueries ==
    ((GridLines \cup GridQuads \cup GridCurves) \X GridPoints) \cup ExampleQueries

InitSegment ==
    /\ \E qy \in SegmentQueries :
        /\ segments = <<qy[1]>>
        /\ point = qy[2]
    /\ operands = <<>>
    /\ outcome = NoOutcome
    /\ pc = "idle"

\* segment.distance(point)
SegmentDistance ==
    /\ pc = "idle"
    /\ Len(segments) = 1
    /\ outcome' = Segment_distance(segments[1], point)
    /\ pc' = IF outcome'.panic THEN "panicked" ELSE "returned"
    /\ UNCHANGED <<segments, point, operands>>

NextSegment == SegmentDistance

SpecSegment == InitSegment /\ [][NextSegment]_vars

(***************************************************************************)
(* Spec: a caller collects the segments of a contour, then asks for its    *)
(* distance to a probe point (Contour::new, Contour::distance).            *)
(***************************************************************************)
\* A contour holds up to MaxSegments segments.
MaxSegments == 3

\* Three parallel edges 0.006 apart (closer together than the tolerance 0.01
\* of the ordering), a quadratic, and a cubic.
Edge(k) == Line(Vec(I(-1), Lit(0 - 6 * k, 1000)), Vec(I(1), Lit(0 - 6 * k, 1000)))

ContourSegments ==
    { Edge(0), Edge(1), Edge(2),
      Quad(V(0, 0), V(1, 1), V(2, 0)),
      Curve(V(0, 0), V(0, 1), V(1, 1), V(1, 0)) }

Probes == {V(0, 0), V(0, 1)}

Init ==
    /\ segments = <<>>
    /\ point \in Probes
    /\ operands = <<>>
    /\ outcome = NoOutcome
    /\ pc = "idle"

\* segments.push(seg), before Contour::new(segments, winding)
Push(seg) ==
    /\ pc = "idle"
    /\ Len(segments) < MaxSegments
    /\ segments' = Append(segments, seg)
    /\ UNCHANGED <<point, operands, outcome, pc>>

\* contour.distance(point)
Query ==
    /\ pc = "idle"
    /\ outcome' = Contour_distance(segments, point)
    /\ pc' = IF outcome'.panic THEN "panicked" ELSE "returned"
    /\ UNCHANGED <<segments, point, operands>>

Next == (\E seg \in ContourSegments : Push(seg)) \/ Query

Spec == Init /\ [][Next]_vars

\* The Distance of segment i of the contour, for a segment that has one.
DistanceOf(i) == Segment_distance(segments[i], point).value

\* C2: the Distance returned for a non-empty contour is that of one of its
\* segments, and no segment of the contour has a Distance that compares
\* strictly less than it.
C2_ReturnsMinimum ==
    pc = "returned" =>
        /\ \E i \in 1..Len(segments) : outcome.value = DistanceOf(i)
        /\ \A j \in 1..Len(segments) : ~lt(DistanceOf(j), outcome.value)

\* C8: a distance query never panics, whatever segments the contour holds
\* (a cubic segment, or none at all).
C8_NoPanic == pc # "panicked"

\* The sequence s in the order given by the permutation f of its indices.
Permuted(s, f) == [i \in 1..Len(s) |-> s[f[i]]]

\* C15: the Distance returned for a contour is the one returned for every
\* reordering of its segments.
C15_OrderIndependent ==
    pc = "returned" =>
        \A f \in Permutations(1..Len(segments)) :
            Contour_distance(Permuted(segments, f), point) = outcome

\* The integer that an f32 with an integer value holds.
IntOf(x) ==
    IF x.k = "zero" THEN 0
    ELSE IF x.e >= 0 THEN x.s * x.m * Pow2(x.e)
    ELSE x.s * (x.m \div Pow2(0 - x.e))

\* The segment and the probe of the query, in integers.
SegFromX == IntOf(segments[1].from.x)

SegFromY == IntOf(segments[1].from.y)

\* to - from
SegDX == IntOf(segments[1].to.x) - SegFromX

SegDY == IntOf(segments[1].to.y) - SegFromY

\* point - from
ProbeDX == IntOf(point.x) - SegFromX

ProbeDY == IntOf(point.y) - SegFromY

\* (to - from) x (point - from), the 2D cross product in the orientation of
\* Vector2::cross, and (to - from) . (point - from).
ProbeCross == SegDX * ProbeDY - SegDY * ProbeDX

ProbeDot == SegDX * ProbeDX + SegDY * ProbeDY

SegLength2 == SegDX * SegDX + SegDY * SegDY

Sgn(n) == IF n > 0 THEN 1 ELSE IF n < 0 THEN -1 ELSE 0

Abs(n) == IF n < 0 THEN 0 - n ELSE n

\* The tolerance of the specification's distance properties, 1e-4.
Epsilon == Lit(1, 10000)

\* |x - y| <= tol
Near(x, y, tol) == FLe(FAbs(FSub(x, y)), tol)

IsLineQuery == Len(segments) = 1 /\ segments[1].type = "Line"

IsQuadQuery == Len(segments) = 1 /\ segments[1].type = "Quadratic"

\* C4: for a line and a probe whose projection falls inside the segment,
\* real_dist is the perpendicular distance |cross| / |to - from| and sign is
\* the sign of (to - from) x (probe - closest), which is that of
\* (to - from) x (probe - from): -1, 0 or +1; the line (0,0)->(10,0) and the
\* probe (5,3) give real_dist 3.0 and sign -1.
C4_LinePerpendicular ==
    (pc = "returned" /\ IsLineQuery /\ SegLength2 > 0
        /\ ProbeDot >= 0 /\ ProbeDot <= SegLength2)
    => /\ Near(outcome.value.real_dist,
               FDiv(I(Abs(ProbeCross)), FSqrt(I(SegLength2))), Epsilon)
       /\ outcome.value.sign = I(Sgn(ProbeCross))
       /\ (segments[1] = Line(V(0, 0), V(10, 0)) /\ point = V(5, 3))
            => (outcome.value.real_dist = I(3) /\ outcome.value.sign = I(-1))

\* C5: a Line or Quadratic query returns extended_dist <= real_dist + epsilon.
C5_ExtendedWithinReal ==
    (pc = "returned" /\ (IsLineQuery \/ IsQuadQuery))
    => FLe(outcome.value.extended_dist, FAdd(outcome.value.real_dist, Epsilon))

\* All defining points of the segment coincide.
IsDegenerate ==
    /\ segments[1].from = segments[1].to
    /\ IsQuadQuery => segments[1].ctrl = segments[1].from

\* C6: when the probe lies on the closest point of the segment (real_dist is
\* 0), or the quadratic has no tangent (its points coincide), the query
\* returns orthogonality 0 and sign 0.
C6_ZeroVectorFallback ==
    (pc = "returned" /\ (IsLineQuery \/ IsQuadQuery)
        /\ (FEq(outcome.value.real_dist, I(0)) \/ (IsQuadQuery /\ IsDegenerate)))
    => /\ FEq(outcome.value.orthogonality, I(0))
       /\ FEq(outcome.value.sign, I(0))

\* C7: a segment whose points all coincide at c returns the distance from
\* the probe to c as real_dist.
C7_DegeneratePointDistance ==
    (pc = "returned" /\ (IsLineQuery \/ IsQuadQuery) /\ IsDegenerate)
    => Near(outcome.value.real_dist, magnitude(VSub(point, segments[1].from)), Epsilon)

\* ---------------------------------------------------------------------
\* Root finding of a quadratic: the coefficients are small integers, and
\* one triple with coefficients of very different magnitude.

MaxQuadCoef == 2

QuadCoefs == (0 - MaxQuadCoef)..MaxQuadCoef

QuadraticInputs ==
    {<<I(a), I(b), I(c)>> : a \in QuadCoefs, b \in QuadCoefs, c \in QuadCoefs}
        \cup {<<I(1), I(-20000), I(1)>>}

InitQuadratic ==
    /\ segments = <<>>
    /\ point = V(0, 0)
    /\ operands \in QuadraticInputs
    /\ outcome = NoOutcome
    /\ pc = "idle"

\* quadratic_roots(a, b, c)
QuadraticRoots ==
    /\ pc = "idle"
    /\ Len(operands) = 3
    /\ outcome' = Returned(quadratic_roots(operands[1], operands[2], operands[3]))
    /\ pc' = "returned"
    /\ UNCHANGED <<segments, point, operands>>

NextQuadratic == QuadraticRoots

SpecQuadratic == InitQuadratic /\ [][NextQuadratic]_vars

\* The roots an outcome holds, in the order of the array.
PresentRoots(roots) == SelectSeq(roots, IsSome)

\* a*r*r + b*r + c in f32
quadratic_residual(a, b, c, r) == FAdd(FAdd(FMul(FMul(a, r), r), FMul(b, r)), c)

\* b*b - 4*a*c of the integer coefficients
IntDiscriminant == IntOf(operands[2]) * IntOf(operands[2]) - 4 * IntOf(operands[1]) * IntOf(operands[3])

\* C9: quadratic_roots returns no root for a = 0, b = 0; the one root -c/b
\* for a = 0, b # 0; for a # 0 no root, the one root -b/(2a) or two roots as
\* the discriminant is negative, zero or positive; and every root returned
\* satisfies |a r^2 + b r + c| <= 1e-3.
C9_QuadraticRoots ==
    (pc = "returned" /\ Len(operands) = 3)
    => LET a == operands[1]
           b == operands[2]
           c == operands[3]
           roots == PresentRoots(outcome.value)
       IN /\ (FEq(a, I(0)) /\ FEq(b, I(0))) => roots = <<>>
          /\ (FEq(a, I(0)) /\ ~FEq(b, I(0))) => roots = <<FDiv(FNeg(c), b)>>
          /\ (~FEq(a, I(0)) /\ IntDiscriminant < 0) => roots = <<>>
          /\ (~FEq(a, I(0)) /\ IntDiscriminant = 0)
                => (Len(roots) = 1 /\ FEq(roots[1], FDiv(FNeg(b), FMul(I(2), a))))
          /\ (~FEq(a, I(0)) /\ IntDiscriminant > 0) => Len(roots) = 2
          /\ \A i \in 1..Len(roots) :
                FLe(FAbs(quadratic_residual(a, b, c, roots[i])), Lit(1, 1000))

\* ---------------------------------------------------------------------
\* Root finding of a cubic with a leading coefficient that is not zero:
\* cubic_roots and, after it, the reference test_find_cubic_roots of the
\* unit tests on the same coefficients.

MaxLead == 2

MaxCubicCoef == 2

CubicCoefs == (0 - MaxCubicCoef)..MaxCubicCoef

\* The coefficients of the unit test cubic_root_test, and two cubics with a
\* double root: 3x^3 - 2x^2 - 5x + 4 and x^3 - 3x + 2.
CubicExamples ==
    { <<I(1), Lit(1004, 10), Lit(-1004, 10), Lit(-29, 100)>>,
      <<I(1), I(-1), Lit(-16, 10), Lit(25, 10)>>,
      <<I(3), I(-2), I(-5), I(4)>>,
      <<I(1), I(0), I(-3), I(2)>> }

CubicInputs ==
    {<<I(a), I(b), I(c), I(d)>> :
        a \in 1..MaxLead, b \in CubicCoefs, c \in CubicCoefs, d \in CubicCoefs}
        \cup CubicExamples

InitCubic ==
    /\ segments = <<>>
    /\ point = V(0, 0)
    /\ operands \in CubicInputs
    /\ outcome = NoOutcome
    /\ pc = "idle"

\* cubic_roots(a, b, c, d)
CubicRoots ==
    /\ pc = "idle"
    /\ Len(operands) = 4
    /\ outcome' = Returned(cubic_roots(operands[1], operands[2], operands[3], operands[4]))
    /\ pc' = "returned"
    /\ UNCHANGED <<segments, point, operands>>

\* test_find_cubic_roots(a, b, c, d), kept next to the roots of cubic_roots
TestFindCubicRoots ==
    /\ pc = "returned"
    /\ Len(operands) = 4
    /\ outcome' = [panic |-> FALSE, value |-> outcome.value,
                   reference |-> test_find_cubic_roots(operands[1], operands[2],
                                                       operands[3], operands[4])]
    /\ pc' = "tested"
    /\ UNCHANGED <<segments, point, operands>>

NextCubic == CubicRoots \/ TestFindCubicRoots

SpecCubic == InitCubic /\ [][NextCubic]_vars

\* The branch cubic_roots took: the one-root branch leaves the second and
\* third root absent, the three-root branch returns three present roots.
TookThreeRoots == IsSome(outcome.value[2]) /\ IsSome(outcome.value[3])

TookOneRoot == IsSome(outcome.value[1]) /\ ~IsSome(outcome.value[2]) /\ ~IsSome(outcome.value[3])

\* The r of cubic_roots on the coefficients of the state.
CodeR ==
    cubic_r(FDiv(operands[2], operands[1]), FDiv(operands[3], operands[1]),
            FDiv(operands[4], operands[1]))

\* The r of test_find_cubic_roots is the negation of the r of cubic_roots:
\* the two sums, which add the same three terms in a different order, were
\* rounded to the same magnitude.
SameR == FEq(outcome.reference.r, FNeg(CodeR))

cubic_residual(a, b, c, d, r) ==
    FAdd(FMul(FAdd(FMul(FAdd(FMul(a, r), b), r), c), r), d)

\* C11: every root cubic_roots returns as present for a # 0 is a number
\* (not NaN) with |a r^3 + b r^2 + c r + d| < 1e-2.
C11_RootsAreReal ==
    (pc = "returned" /\ Len(operands) = 4)
    => \A i \in 1..3 :
          IsSome(outcome.value[i])
          => /\ ~IsNaN(outcome.value[i])
             /\ FLt(FAbs(cubic_residual(operands[1], operands[2], operands[3],
                                        operands[4], outcome.value[i])),
                    Lit(1, 100))

(***************************************************************************)
(* Intersections (math.rs).                                                *)
(***************************************************************************)

\* p0 + t * (p1 - p0)
line_fn(p0, p1, t) == VAdd(p0, VScale(t, VSub(p1, p0)))

\* p0 + 2.0 * t * (p1 - p0) + t * t * (p2 - 2.0 * p1 + p0)
quadratic_fn(p0, p1, p2, t) ==
    VAdd(VAdd(p0, VScale(FMul(I(2), t), VSub(p1, p0))),
         VScale(FMul(t, t), VAdd(VSub(p2, VScale(I(2), p1)), p0)))

\* A variant of the range test without the end points: 0.0 < t < 1.0.
unit_range_open(t) == FLt(I(0), t) /\ FLt(t, I(1))

\* (0.0..=1.0).contains(&t)
unit_range_contains(t) == FLe(I(0), t) /\ FLe(t, I(1))

\*     if (0.0..=1.0).contains(&t1) && (0.0..=1.0).contains(&t2) {
\*         return Some(line_fn(p0, p1, t1)); }
line_line_point(p0, p1, t1, t2) ==
    (CASE Ready(<<t1, t2>>) ->
        IF unit_range_contains(t1) /\ unit_range_contains(t2)
        THEN line_fn(p0, p1, t1)
        ELSE None)

\*     if denominator != 0.0 { t1 = numerator1 / denominator;
\*                             t2 = numerator2 / denominator; ... } None
line_line_parameters(p0, p1, numerator1, numerator2, denominator) ==
    (CASE Ready(<<numerator1, numerator2, denominator>>) ->
        IF ~FEq(denominator, I(0))
        THEN line_line_point(p0, p1, FDiv(numerator1, denominator),
                             FDiv(numerator2, denominator))
        ELSE None)

\*     numerator1 = (x3_x2 * y0_y2) - (y3_y2 * x0_x2);
\*     numerator2 = (x1_x0 * y0_y2) - (y1_y0 * x0_x2);
\*     denominator = (y3_y2 * x1_x0) - (x3_x2 * y1_y0)
line_line_numerators(p0, p1, x0_x2, y0_y2, x1_x0, y1_y0, x3_x2, y3_y2) ==
    (CASE Ready(<<x0_x2, y0_y2, x1_x0, y1_y0, x3_x2, y3_y2>>) ->
        line_line_parameters(p0, p1,
            FSub(FMul(x3_x2, y0_y2), FMul(y3_y2, x0_x2)),
            FSub(FMul(x1_x0, y0_y2), FMul(y1_y0, x0_x2)),
            FSub(FMul(y3_y2, x1_x0), FMul(x3_x2, y1_y0))))

\*     x0_x2 = p0.x - p2.x; y0_y2 = p0.y - p2.y; x1_x0 = p1.x - p0.x;
\*     y1_y0 = p1.y - p0.y; x3_x2 = p3.x - p2.x; y3_y2 = p3.y - p2.y
line_line_differences(p0, p1, p2, p3) ==
    line_line_numerators(p0, p1, FSub(p0.x, p2.x), FSub(p0.y, p2.y),
                         FSub(p1.x, p0.x), FSub(p1.y, p0.y),
                         FSub(p3.x, p2.x), FSub(p3.y, p2.y))

line_line_intersection(line1, line2) ==
    line_line_differences(line1.from, line1.to, line2.from, line2.to)

\* ---------------------------------------------------------------------
\* Two lines with end points on a small grid, and the pairs of the unit
\* test line_intersection_test.

MaxCrossX == 2

MaxCrossY == 1

CrossPoints == {V(x, y) : x \in 0..MaxCrossX, y \in 0..MaxCrossY}

CrossLines == {Line(p, q) : p \in CrossPoints, q \in CrossPoints}

ExampleLinePairs ==
    { <<Line(V(1, 1), V(10, 1)), Line(V(1, 20), V(10, 20))>>,
      <<Line(V(1, 1), V(10, 3)), Line(V(1, 1), V(10, 3))>>,
      <<Line(V(1, 1), V(10, 10)), Line(V(1, 10), V(3, 0))>>,
      <<Line(V(1, 1), V(10, 10)), Line(V(10, 10), V(20, 1))>>,
      <<Line(V(1, 10), V(3, 1)), Line(V(3, 10), V(10, 15))>>,
      <<Line(V(1, 1), V(10, 10)), Line(V(8, 8), V(20, 20))>>,
      <<Line(V(1, 1), V(100, 100)), Line(V(110, 110), V(200, 200))>> }

LinePairs == (CrossLines \X CrossLines) \cup ExampleLinePairs

InitLineLine ==
    /\ \E pair \in LinePairs : segments = <<pair[1], pair[2]>>
    /\ point = V(0, 0)
    /\ operands = <<>>
    /\ outcome = NoOutcome
    /\ pc = "idle"

\* line_line_intersection(&line1, &line2)
LineLineIntersection ==
    /\ pc = "idle"
    /\ Len(segments) = 2
    /\ outcome' = Returned(line_line_intersection(segments[1], segments[2]))
    /\ pc' = "returned"
    /\ UNCHANGED <<segments, point, operands>>

NextLineLine == LineLineIntersection

SpecLineLine == InitLineLine /\ [][NextLineLine]_vars

\* The two lines of the state in integers: the direction of each line and
\* the offset between their starting points.
Line1DX == IntOf(segments[1].to.x) - IntOf(segments[1].from.x)

Line1DY == IntOf(segments[1].to.y) - IntOf(segments[1].from.y)

Line2DX == IntOf(segments[2].to.x) - IntOf(segments[2].from.x)

Line2DY == IntOf(segments[2].to.y) - IntOf(segments[2].from.y)

OffsetX == IntOf(segments[1].from.x) - IntOf(segments[2].from.x)

OffsetY == IntOf(segments[1].from.y) - IntOf(segments[2].from.y)

\* The 2D cross product of the two directions: zero exactly when the lines
\* are parallel or collinear (or one of them is a single point).
CrossDen == Line2DY * Line1DX - Line2DX * Line1DY

\* The parameters of the meeting point of the two infinite lines are
\* CrossNum1 / CrossDen on the first and CrossNum2 / CrossDen on the second.
CrossNum1 == Line2DX * OffsetY - Line2DY * OffsetX

CrossNum2 == Line1DX * OffsetY - Line1DY * OffsetX

\* 0 <= n / d <= 1
InUnit(n, d) == IF d > 0 THEN 0 <= n /\ n <= d ELSE d <= n /\ n <= 0

\* The meeting point computed on the first line and on the second line,
\* each coordinate as a fraction over CrossDen.
MeetOnLine1 ==
    <<IntOf(segments[1].from.x) * CrossDen + CrossNum1 * Line1DX,
      IntOf(segments[1].from.y) * CrossDen + CrossNum1 * Line1DY>>

MeetOnLine2 ==
    <<IntOf(segments[2].from.x) * CrossDen + CrossNum2 * Line2DX,
      IntOf(segments[2].from.y) * CrossDen + CrossNum2 * Line2DY>>

\* C12: line_line_intersection returns None when the lines are parallel or
\* collinear; otherwise it returns a point exactly when the parameters of
\* the meeting point on both lines lie in [0, 1], end points included, and
\* the point returned is (within 1e-4) the meeting point, which lies on
\* both segments.
C12_LineLineIntersection ==
    (pc = "returned" /\ Len(segments) = 2 /\ segments[1].type = "Line")
    => /\ CrossDen = 0 => outcome.value = None
       /\ CrossDen # 0 =>
            /\ MeetOnLine1 = MeetOnLine2
            /\ outcome.value # None
                 <=> (InUnit(CrossNum1, CrossDen) /\ InUnit(CrossNum2, CrossDen))
            /\ outcome.value # None =>
                 /\ Near(outcome.value.x, Lit(MeetOnLine1[1], CrossDen), Epsilon)
                 /\ Near(outcome.value.y, Lit(MeetOnLine1[2], CrossDen), Epsilon)

\* Two lines that are not parallel and meet at the end point of the first
\* (parameter 1) have been intersected, and a point was returned.
C12_Witness ==
    /\ pc = "returned"
    /\ Len(segments) = 2
    /\ segments[1].type = "Line"
    /\ CrossDen # 0
    /\ CrossNum1 = CrossDen
    /\ InUnit(CrossNum2, CrossDen)
    /\ outcome.value # None

\* Vector2 / Vector2, component by component.
VQuot(a, b) == Vec(FDiv(a.x, b.x), FDiv(a.y, b.y))

\*     if (line_p.x >= 0.0 && line_p.x <= 1.0) && (line_p.y >= 0.0 && line_p.y <= 1.0) {
\*         intersections[i] = Some(line_fn(l0, l1, line_p.x)); }
quad_line_point(l0, l1, line_p) ==
    (CASE Ready(line_p) ->
        IF /\ FGe(line_p.x, I(0)) /\ FLe(line_p.x, I(1))
           /\ FGe(line_p.y, I(0)) /\ FLe(line_p.y, I(1))
        THEN line_fn(l0, l1, line_p.x)
        ELSE None)

\*     if *root >= 0.0 && *root <= 1.0 {
\*         quad_p = quadratic_fn(q0, q1, q2, *root);
\*         line_p = (quad_p - l0) / (l1 - l0); ... }
quad_line_root(q0, q1, q2, l0, l1, root) ==
    IF FGe(root, I(0)) /\ FLe(root, I(1))
    THEN quad_line_point(l0, l1, VQuot(VSub(quadratic_fn(q0, q1, q2, root), l0), VSub(l1, l0)))
    ELSE None

\* quad_roots.iter().flatten(): the present roots, in the order of the array
flatten(roots) == SelectSeq(roots, IsSome)

\*     intersections = [None; 2];
\*     for (i, root) in quad_roots.iter().flatten().enumerate() { ... }
quad_line_slot(q0, q1, q2, l0, l1, present, i) ==
    IF i <= Len(present) THEN quad_line_root(q0, q1, q2, l0, l1, present[i]) ELSE None

quad_line_each(q0, q1, q2, l0, l1, present) ==
    (CASE Ready(present) ->
        <<quad_line_slot(q0, q1, q2, l0, l1, present, 1),
          quad_line_slot(q0, q1, q2, l0, l1, present, 2)>>)

\*     a = (q0 + q2 - 2.0 * q1).cross(l1 - l0);
\*     b = 2.0 * (q1 - q0).cross(l1 - l0);
\*     c = (q0 - l0).cross(l1 - l0);
\*     quad_roots = quadratic_roots(a, b, c)
quad_line_coefficients(q0, q1, q2, l0, l1, dir) ==
    (CASE Ready(dir) ->
        quad_line_each(q0, q1, q2, l0, l1,
            flatten(quadratic_roots(cross(VSub(VAdd(q0, q2), VScale(I(2), q1)), dir),
                                    FMul(I(2), cross(VSub(q1, q0), dir)),
                                    cross(VSub(q0, l0), dir)))))

quad_line_intersection(quad, line) ==
    quad_line_coefficients(quad.from, quad.ctrl, quad.to, line.from, line.to,
                           VSub(line.to, line.from))

\* ---------------------------------------------------------------------
\* A quadratic and a line with points on a small grid, and the pairs of the
\* unit test line_quad_intersection_test (2.5 and 2.1 are the f32 nearest
\* to them).

MaxQuadLineX == 2

MaxQuadLineY == 1

QuadLinePoints == {V(x, y) : x \in 0..MaxQuadLineX, y \in 0..MaxQuadLineY}

ExampleQuadLinePairs ==
    { <<Quad(Vec(Lit(5, 2), I(2)), V(3, 8), V(10, 12)), Line(V(4, 5), V(10, 9))>>,
      <<Quad(Vec(Lit(5, 2), I(2)), V(3, 8), V(10, 12)), Line(V(1, 1), V(10, 10))>>,
      <<Quad(Vec(I(2), Lit(21, 10)), V(3, 8), V(9, 8)), Line(V(1, 1), V(10, 10))>> }

\* A horizontal and a vertical line, each crossed once by a quadratic that
\* starts on one side of it and ends on the other.
AxisQuadLinePairs ==
    { <<Quad(V(0, 0), V(1, 0), V(2, 2)), Line(V(-1, 1), V(3, 1))>>,
      <<Quad(V(0, 0), V(0, 1), V(2, 2)), Line(V(1, -1), V(1, 3))>> }

QuadLinePairs ==
    {<<Quad(q0, q1, q2), Line(l0, l1)>> :
        q0 \in QuadLinePoints, q1 \in QuadLinePoints, q2 \in QuadLinePoints,
        l0 \in QuadLinePoints, l1 \in QuadLinePoints}
        \cup ExampleQuadLinePairs \cup AxisQuadLinePairs

InitQuadLine ==
    /\ \E pair \in QuadLinePairs : segments = <<pair[1], pair[2]>>
    /\ point = V(0, 0)
    /\ operands = <<>>
    /\ outcome = NoOutcome
    /\ pc = "idle"

\* quad_line_intersection(&quad, &line)
QuadLineIntersection ==
    /\ pc = "idle"
    /\ Len(segments) = 2
    /\ outcome' = Returned(quad_line_intersection(segments[1], segments[2]))
    /\ pc' = "returned"
    /\ UNCHANGED <<segments, point, operands>>

NextQuadLine == QuadLineIntersection

SpecQuadLine == InitQuadLine /\ [][NextQuadLine]_vars

\* The quadratic and the line of the state in integers (end points on the
\* grid): the direction of the line, and for a point q of the quadratic
\* its side of the line, (q - l0) x dir, and its position along the line,
\* (q - l0) . dir, which is between 0 and dir . dir over the segment.
LineDX == IntOf(segments[2].to.x) - IntOf(segments[2].from.x)

LineDY == IntOf(segments[2].to.y) - IntOf(segments[2].from.y)

SideOf(q) ==
    (IntOf(q.x) - IntOf(segments[2].from.x)) * LineDY
        - (IntOf(q.y) - IntOf(segments[2].from.y)) * LineDX

AlongOf(q) ==
    (IntOf(q.x) - IntOf(segments[2].from.x)) * LineDX
        + (IntOf(q.y) - IntOf(segments[2].from.y)) * LineDY

LineLength2 == LineDX * LineDX + LineDY * LineDY

\* All coordinates of the state are integers.
OnGrid == <<segments[1], segments[2]>> \notin ExampleQuadLinePairs

\* The end points of the quadratic lie strictly on opposite sides of the
\* line, and all three of its points project strictly inside the segment:
\* the curve, which stays in the triangle of its points, crosses the
\* segment exactly once, at a parameter in (0, 1).
MustCross ==
    /\ OnGrid
    /\ SideOf(segments[1].from) * SideOf(segments[1].to) < 0
    /\ \A q \in {segments[1].from, segments[1].ctrl, segments[1].to} :
          AlongOf(q) > 0 /\ AlongOf(q) < LineLength2

\* The points an outcome holds.
ReturnedPoints == {i \in 1..2 : outcome.value[i] # None}

\* The distance of a point from the infinite line of the state, in f32.
OffLine(p) ==
    FDiv(FAbs(cross(VSub(p, segments[2].from), VSub(segments[2].to, segments[2].from))),
         magnitude(VSub(segments[2].to, segments[2].from)))

\* C13: quad_line_intersection returns the crossings of the quadratic with
\* the line segment: every point returned lies on the line (within 1e-3),
\* a quadratic that must cross the segment once has exactly one point
\* returned, whatever the direction of the line, and of the two examples
\* the line (1,1)->(10,10) yields exactly one point and the line
\* (4,5)->(10,9) none.
C13_QuadLineCrossings ==
    (pc = "returned" /\ Len(segments) = 2 /\ segments[1].type = "Quadratic")
    => /\ \A i \in ReturnedPoints : FLe(OffLine(outcome.value[i]), Lit(1, 1000))
       /\ MustCross => Cardinality(ReturnedPoints) = 1
       /\ segments = <<Quad(Vec(Lit(5, 2), I(2)), V(3, 8), V(10, 12)), Line(V(1, 1), V(10, 10))>>
            => Cardinality(ReturnedPoints) = 1
       /\ segments = <<Quad(Vec(Lit(5, 2), I(2)), V(3, 8), V(10, 12)), Line(V(4, 5), V(10, 9))>>
            => Cardinality(ReturnedPoints) = 0

(***************************************************************************)
(* Font metrics and glyph scale (font.rs).  A font is the record of the    *)
(* face's units_per_em (u16), ascender, descender and line_gap (i16); a    *)
(* Scale is its f32.                                                       *)
(***************************************************************************)

\* Scale::normalize: Self(self.0 * factor)
Scale_normalize(scale, factor) == FMul(scale, factor)

units_per_em(font) == font.units_per_em

v_metrics_unscaled(font) ==
    [ascent |-> I(font.ascender), descent |-> I(font.descender),
     line_gap |-> I(font.line_gap)]

\* impl Mul<f32> for VMetrics
VMetrics_mul(metrics, rhs) ==
    (CASE Ready(rhs) ->
        [ascent |-> FMul(metrics.ascent, rhs), descent |-> FMul(metrics.descent, rhs),
         line_gap |-> FMul(metrics.line_gap, rhs)])

\*     height_factor = scale.0 / glyph_height;
\*     self.v_metrics_unscaled() * height_factor
v_metrics_height(font, scale, glyph_height) ==
    (CASE Ready(<<scale, glyph_height>>) ->
        VMetrics_mul(v_metrics_unscaled(font), FDiv(scale, glyph_height)))

\*     scale = scale.normalize(1.0 / self.units_per_em() as f32);
\*     glyph_height = self.inner.ascender() as f32 - self.inner.descender() as f32
v_metrics(font, scale) ==
    v_metrics_height(font, Scale_normalize(scale, FDiv(I(1), I(units_per_em(font)))),
                     FSub(I(font.ascender), I(font.descender)))

\* impl From<Rect> for BBox
BBox_from(rect) ==
    [tl |-> Vec(I(rect.x_min), I(rect.y_max)), br |-> Vec(I(rect.x_max), I(rect.y_min))]

\* BBox::resize
BBox_resize(bbox, scale) ==
    (CASE Ready(scale) -> [tl |-> VScale(scale, bbox.tl), br |-> VScale(scale, bbox.br)])

\* Glyph::build, with unscaled_rect the rectangle outline_glyph returns: the
\* scale and the bounding box of the GlyphOutline (its shape is assembled
\* by the ShapeBuilder from the events of the font parser).
Glyph_build_scaled(rect, scale) ==
    (CASE Ready(scale) -> [bbox |-> BBox_resize(BBox_from(rect), scale), scale |-> scale])

Glyph_build(font, rect, scale) ==
    Glyph_build_scaled(rect, Scale_normalize(scale, FDiv(I(1), I(units_per_em(font)))))

\* ---------------------------------------------------------------------
\* A font with small metrics, a glyph rectangle and a user scale; and a
\* font of 1000 units per em at the default scale 32.

MaxEm == 2

MaxAscender == 2

MaxDescender == 1

MaxLineGap == 1

Fonts ==
    [units_per_em : 1..MaxEm, ascender : 0..MaxAscender,
     descender : (0 - MaxDescender)..0, line_gap : 0..MaxLineGap]
        \cup {[units_per_em |-> 1000, ascender |-> 800, descender |-> -200, line_gap |-> 90]}

Scales == {I(1), I(32)}

\* operands = <<font, unscaled_rect, scale>>
InitFont ==
    /\ segments = <<>>
    /\ point = V(0, 0)
    /\ \E font \in Fonts, scale \in Scales :
          operands = <<font,
                       [x_min |-> 0, y_min |-> font.descender,
                        x_max |-> font.units_per_em, y_max |-> font.ascender],
                       scale>>
    /\ outcome = NoOutcome
    /\ pc = "idle"

\* font.v_metrics(scale)
FontVMetrics ==
    /\ pc = "idle"
    /\ Len(operands) = 3
    /\ outcome' = Returned(v_metrics(operands[1], operands[3]))
    /\ pc' = "metrics"
    /\ UNCHANGED <<segments, point, operands>>

\* glyph.build(scale)
GlyphBuild ==
    /\ pc = "idle"
    /\ Len(operands) = 3
    /\ outcome' = Returned(Glyph_build(operands[1], operands[2], operands[3]))
    /\ pc' = "built"
    /\ UNCHANGED <<segments, point, operands>>

NextFont == FontVMetrics \/ GlyphBuild

SpecFont == InitFont /\ [][NextFont]_vars

\* The factor Glyph::build applies to the outline and the bounding box of
\* the font and scale of the state: scale / units_per_em.
EffectiveScale == Glyph_build(operands[1], operands[2], operands[3]).scale

\* C14: Font::v_metrics(Scale(s)) returns ascent, descent and line_gap each
\* equal (within 1e-4) to the font-unit value multiplied by s / units_per_em,
\* the factor Glyph::build applies.
C14_MetricsScaledLikeGlyph ==
    pc = "metrics"
    => /\ Near(outcome.value.ascent, FMul(I(operands[1].ascender), EffectiveScale), Epsilon)
       /\ Near(outcome.value.descent, FMul(I(operands[1].descender), EffectiveScale), Epsilon)
       /\ Near(outcome.value.line_gap, FMul(I(operands[1].line_gap), EffectiveScale), Epsilon)

=============================================================================
